---- MODULE Spec2Model ----
(***************************************************************************)
(* A model of the DocuMind ML service (app/chunker.py, app/utils.py,       *)
(* app/rag_engine.py): the word-window chunker, the status notifier, the   *)
(* ingest and answer pipelines, the LLM answerer with its fallback, and    *)
(* the lazily loaded embedder.                                             *)
(*                                                                         *)
(* Text (document text, chunks, contexts, LLM answers) is a sequence of    *)
(* one-character strings; the fixed pieces of a template are single atoms  *)
(* of such a sequence.  Exception messages and notification statuses are   *)
(* strings.  Python's None is the value None below.                        *)
(***************************************************************************)
EXTENDS Integers, Sequences, FiniteSets, TLC

VARIABLES
    \* ---- chunk_text(text, chunk_size, chunk_overlap): one call in progress
    ctext, csize, coverlap, ctokens, ci, cchunks, cpc,
    \* ---- the process: configuration, the remote index, the module globals
    cfg,          \* <<CHUNK_SIZE, CHUNK_OVERLAP>> read from the environment
    index,        \* ids of the records held by the remote vector index
    embedder,     \* rag_engine._embedder: None or the Embedder instance
    built,        \* number of Embedder instances constructed so far
    \* ---- the request being served by process_ingest / process_answer
    op, pc,
    fileId, pdf, text, local_file, chunks, vectors, batch, bi,
    upserts,      \* the index.upsert calls made by this request, in order
    notes,        \* the notify_node_update calls made by this request, in order
    exc,          \* the exception caught by the request's handler, or None
    result,       \* the payload returned to the caller
    query, top_k, matches,
    llm_call,     \* the context handed to generate_llm_answer, or None
    \* ---- generate_llm_answer(context, query) called directly
    g_context, g_query, g_llm, g_answer,
    \* ---- threads inside get_embedder()
    tpc, tnew, tgot

chunkVars == <<ctext, csize, coverlap, ctokens, ci, cchunks, cpc>>
procVars == <<cfg, index, embedder, built>>
reqVars == <<op, pc, fileId, pdf, text, local_file, chunks, vectors, batch, bi,
             upserts, notes, exc, result, query, top_k, matches, llm_call>>
genVars == <<g_context, g_query, g_llm, g_answer>>
thrVars == <<tpc, tnew, tgot>>
vars == <<chunkVars, procVars, reqVars, genVars, thrVars>>

(***************************************************************************)
(* Bounds of the model.                                                    *)
(***************************************************************************)
MaxLen == 4          \* longest text enumerated character by character
MaxWords == 6        \* longest text of distinct one-letter words
MaxSize == 3         \* largest chunk_size / chunk_overlap enumerated
MaxOver == 2         \* windows a call may produce beyond its token count
MaxPad == 2          \* characters of the longest context beyond the fallback limit
NumThreads == 3      \* request threads inside get_embedder at once
ScenarioWords == 1200 \* the 1200-word document of the end-to-end scenario

(***************************************************************************)
(* Program constants.                                                      *)
(***************************************************************************)
DefaultChunkSize == 500
DefaultChunkOverlap == 50

None == <<"None">>

Min(a, b) == IF a < b THEN a ELSE b
Max(a, b) == IF a > b THEN a ELSE b

(***************************************************************************)
(* Python string operations.                                               *)
(***************************************************************************)
\* The characters c with c.isspace(), which str.split() and str.strip() take
\* as whitespace, up to U+00FF (a TLA+ string holds no character beyond it,
\* so the texts of the model hold none of U+1680, U+2000-200A, U+2028, U+2029,
\* U+202F, U+205F, U+3000): U+0009-000D, U+001C-001F, U+0020, U+0085, U+00A0.
Whitespace == {"\t", "\n", "", "\f", "\r", "", "", "", "", " ", "", " "}
IsSpace(c) == c \in Whitespace

\* str.split(): the maximal runs of non-whitespace characters, in order.
Split(s) ==
    LET n == Len(s)
        IsStart(i) == ~IsSpace(s[i]) /\ (i = 1 \/ IsSpace(s[i - 1]))
        starts == SelectSeq([i \in 1..n |-> i], IsStart)
        EndOf(b) == CHOOSE e \in b..n :
                        /\ \A k \in b..e : ~IsSpace(s[k])
                        /\ (e = n \/ IsSpace(s[e + 1]))
    IN [k \in 1..Len(starts) |-> SubSeq(s, starts[k], EndOf(starts[k]))]

\* str.strip(): the text from its first to its last non-whitespace character.
Strip(s) ==
    LET n == Len(s)
    IN IF \A i \in 1..n : IsSpace(s[i]) THEN <<>>
       ELSE SubSeq(s,
                CHOOSE i \in 1..n : ~IsSpace(s[i]) /\ \A j \in 1..(i - 1) : IsSpace(s[j]),
                CHOOSE i \in 1..n : ~IsSpace(s[i]) /\ \A j \in (i + 1)..n : IsSpace(s[j]))

\* sep.join(parts[lo..hi]), by halves (the result is the same left to right).
RECURSIVE JoinRange(_, _, _, _)
JoinRange(parts, sep, lo, hi) ==
    IF lo > hi THEN <<>>
    ELSE IF lo = hi THEN parts[lo]
    ELSE LET mid == (lo + hi) \div 2
         IN JoinRange(parts, sep, lo, mid) \o sep \o JoinRange(parts, sep, mid + 1, hi)

Join(parts, sep) == JoinRange(parts, sep, 1, Len(parts))

\* seq[a:b] with Python's clamping of out-of-range and negative indices.
PySlice(seq, a, b) ==
    LET n == Len(seq)
        lo == IF a < 0 THEN Max(n + a, 0) ELSE Min(a, n)
        hi == IF b < 0 THEN Max(n + b, 0) ELSE Min(b, n)
    IN IF lo < hi THEN SubSeq(seq, lo + 1, hi) ELSE <<>>

(***************************************************************************)
(* Input texts.                                                            *)
(***************************************************************************)
Alphabet == {"a", "b", " ", "\n", "\r"}
Letters == <<"c", "d", "e", "f", "g", "h", "k">>

TextsUpTo(n) == UNION {[1..k -> Alphabet] : k \in 0..n}

\* n one-letter words separated by single spaces; word k (from 0) is
\* Letters[k % 7 + 1].
Words(n) ==
    IF n = 0 THEN <<>>
    ELSE [p \in 1..(2 * n - 1) |->
            IF p % 2 = 1 THEN Letters[(((p - 1) \div 2) % Len(Letters)) + 1] ELSE " "]

(***************************************************************************)
(* chunk_text (app/chunker.py), one loop iteration per step.               *)
(***************************************************************************)
\* the window cut one token short (end = i + chunk_size - 1)
ChunkWindow_Short(tokens, i, size) == Join(PySlice(tokens, i, i + size - 1), <<" ">>)

\* tokens[i:end] for end = i + chunk_size, joined by single spaces
ChunkWindow(tokens, i, size) == Join(PySlice(tokens, i, i + size), <<" ">>)

\* the stride without the overlap (i += chunk_size)
NextStart_NoOverlap(i, size, overlap) == i + size

\* i += chunk_size - chunk_overlap
NextStart(i, size, overlap) == i + size - overlap

\* lines 10-18: the two early returns, then chunks = [], i = 0
ChunkEnter ==
    /\ cpc = "start"
    /\ IF ctext = <<>> \/ Split(ctext) = <<>>
       THEN /\ cpc' = "done"
            /\ ctokens' = IF ctext = <<>> THEN ctokens ELSE Split(ctext)
            /\ cchunks' = <<>>
            /\ ci' = ci
       ELSE /\ cpc' = "loop"
            /\ ctokens' = Split(ctext)
            /\ cchunks' = <<>>
            /\ ci' = 0
    /\ UNCHANGED <<ctext, csize, coverlap>>
    /\ UNCHANGED <<procVars, reqVars, genVars, thrVars>>

\* lines 19-23: one iteration of `while i < len(tokens)`
ChunkIter ==
    /\ cpc = "loop"
    /\ ci < Len(ctokens)
    /\ Len(cchunks) < Len(ctokens) + MaxOver
    /\ cchunks' = Append(cchunks, ChunkWindow(ctokens, ci, csize))
    /\ ci' = NextStart(ci, csize, coverlap)
    /\ UNCHANGED <<ctext, csize, coverlap, ctokens, cpc>>
    /\ UNCHANGED <<procVars, reqVars, genVars, thrVars>>

\* lines 19, 25: the loop condition fails, return chunks
ChunkExit ==
    /\ cpc = "loop"
    /\ ~(ci < Len(ctokens))
    /\ cpc' = "done"
    /\ UNCHANGED <<ctext, csize, coverlap, ctokens, ci, cchunks>>
    /\ UNCHANGED <<procVars, reqVars, genVars, thrVars>>

ChunkStep == ChunkEnter \/ ChunkIter \/ ChunkExit

(***************************************************************************)
(* Python values of mixed type: None, a string, an int, an exception.      *)
(***************************************************************************)
PyStr(m) == <<"str", m>>
PyInt(n) == <<"int", n>>
Exc(m) == <<"exc", m>>
\* str(e)
ExcMsg(e) == e[2]
\* `if v:` for None, a string or an int
Truthy(v) == v # None /\ v # PyStr("") /\ v # PyInt(0)
\* d.get(k, default)
Get(d, k, default) == IF k \in DOMAIN d THEN d[k] ELSE default

(***************************************************************************)
(* notify_node_update (app/utils.py).  `post` is what requests.post and    *)
(* raise_for_status do: "200", an HTTP error status, or no connection.     *)
(***************************************************************************)
PostOutcomes == {"200", "500", "unreachable"}

\* lines 12-16: the JSON body
NotifyPayload(file_id, status, pages, error_message) ==
    LET base == [fileId |-> file_id, status |-> status]
        withPages == IF pages # None THEN ("pages" :> pages) @@ base ELSE base
    IN IF Truthy(error_message)
       THEN ("errorMessage" :> error_message) @@ withPages
       ELSE withPages

\* the same call without the try/except of lines 22-30
notify_node_update_Unguarded(file_id, status, pages, error_message, post) ==
    [payload |-> NotifyPayload(file_id, status, pages, error_message),
     raised |-> post # "200",
     ret |-> IF post = "200" THEN <<TRUE, "OK">> ELSE None]

\* lines 8-30: the call made, whether an exception leaves it, what it returns
notify_node_update(file_id, status, pages, error_message, post) ==
    [payload |-> NotifyPayload(file_id, status, pages, error_message),
     raised |-> FALSE,
     ret |-> IF post = "200" THEN <<TRUE, "OK">> ELSE <<FALSE, post>>]

(***************************************************************************)
(* extract_pdf_text (app/pdf_utils.py): the texts of the pages that have   *)
(* any, joined by newlines.  A PDF is the sequence of its pages' texts.    *)
(***************************************************************************)
extract_pdf_text(pages) ==
    LET HasText(t) == t # <<>>
    IN Join(SelectSeq(pages, HasText), <<"\n">>)

(***************************************************************************)
(* process_ingest (app/rag_engine.py), one step per numbered stage.        *)
(***************************************************************************)
\* a batch size above the limit of one upsert call
batch_size_Large == 100 + 50

\* line 111
batch_size == 100

NoResult == [pending |-> TRUE]

FileIds == {"docA"}
OriginalNames == {"a.pdf"}

Pdfs ==
    { <<>>,                                  \* no pages
      << <<"\r", "\n">> >>,                  \* one page of whitespace
      << Words(1) >>,
      << Words(2), <<>>, <<"a", "\r", "\f", "b", "\n">> >>,
      << Words(MaxWords) >>,
      << Words(ScenarioWords) >> }

Configs == { <<DefaultChunkSize, DefaultChunkOverlap>>, <<6, 1>> }

\* f"{fileId}_{i}"
RecordId(f, i) == f \o "_" \o ToString(i)

\* the sentence-embedding of one text (an opaque value of the model)
Encode(t) == <<"vec", Len(t)>>

\* Embedder.embed_documents (app/embedder.py lines 13-20)
embed_documents(texts) == [k \in 1..Len(texts) |-> Encode(texts[k])]

\* lines 94-108: one (id, vector, metadata) triple per vector
BuildBatch(f, name, vecs, chs) ==
    [k \in 1..Len(vecs) |->
        [id |-> RecordId(f, k - 1),
         values |-> vecs[k],
         metadata |-> [fileId |-> f, chunkId |-> k - 1, text |-> chs[k], source |-> name]]]

\* index.upsert(vectors=part): insert or overwrite by id
Upsert(idx, part) == idx \cup {part[k].id : k \in 1..Len(part)}

ChunkIdle ==
    /\ ctext = <<>> /\ csize = 0 /\ coverlap = 0 /\ ctokens = <<>>
    /\ ci = 0 /\ cchunks = <<>> /\ cpc = "idle"

FreshRequest(kind, first) ==
    /\ op' = kind
    /\ pc' = first
    /\ text' = None /\ local_file' = "none"
    /\ chunks' = <<>> /\ vectors' = <<>> /\ batch' = <<>> /\ bi' = 0
    /\ upserts' = <<>> /\ notes' = <<>> /\ exc' = None /\ result' = NoResult
    /\ matches' = <<>> /\ llm_call' = None

\* raise inside the try block of the handler
Raise(msg) == exc' = Exc(msg) /\ pc' = "except"

\* POST /ingest reaches process_ingest(fileId, fileUrl, originalName)
IngestStart ==
    /\ pc = "idle"
    /\ FreshRequest("ingest", "download")
    /\ \E f \in FileIds, d \in Pdfs : fileId' = f /\ pdf' = d
    /\ query' = <<>> /\ top_k' = 0
    /\ UNCHANGED <<chunkVars, procVars, genVars, thrVars>>

\* line 78, download_file (lines 60-70): the GET fails before the temporary
\* file exists, or writing it fails after, or the path is returned
IngestDownload ==
    /\ op = "ingest" /\ pc = "download"
    /\ \E out \in {"ok", "http_error", "write_error"} :
          IF out = "ok"
          THEN local_file' = "present" /\ pc' = "extract" /\ exc' = exc
          ELSE /\ local_file' = IF out = "write_error" THEN "present" ELSE "none"
               /\ Raise(IF out = "http_error" THEN "404 Client Error"
                        ELSE "No space left on device")
    /\ UNCHANGED <<chunkVars, procVars, genVars, thrVars>>
    /\ UNCHANGED <<op, fileId, pdf, text, chunks, vectors, batch, bi, upserts, notes,
                   result, query, top_k, matches, llm_call>>

\* line 81: extract_pdf_text raises RuntimeError or returns the text
IngestExtract ==
    /\ op = "ingest" /\ pc = "extract"
    /\ \E out \in {"ok", "unreadable"} :
          IF out = "ok"
          THEN text' = extract_pdf_text(pdf) /\ pc' = "check_empty" /\ exc' = exc
          ELSE text' = text /\ Raise("PDF extraction failed: EOF marker not found")
    /\ UNCHANGED <<chunkVars, procVars, genVars, thrVars>>
    /\ UNCHANGED <<op, fileId, pdf, local_file, chunks, vectors, batch, bi, upserts,
                   notes, result, query, top_k, matches, llm_call>>

\* lines 82-84: the empty-text exit; the message is the third positional
\* argument of notify_node_update, which is `pages`
IngestCheckEmpty ==
    /\ op = "ingest" /\ pc = "check_empty"
    /\ IF Strip(text) = <<>>
       THEN \E post \in PostOutcomes :
              LET n == notify_node_update(fileId, "failed", PyStr("Empty text extracted"),
                                          None, post)
              IN /\ notes' = Append(notes, [payload |-> n.payload, ret |-> n.ret])
                 /\ IF n.raised
                    THEN Raise("notify failed") /\ result' = result
                    ELSE /\ result' = [ok |-> FALSE, reason |-> "Empty text"]
                         /\ pc' = "returned" /\ exc' = exc
       ELSE pc' = "chunk" /\ UNCHANGED <<notes, result, exc>>
    /\ UNCHANGED <<chunkVars, procVars, genVars, thrVars>>
    /\ UNCHANGED <<op, fileId, pdf, text, local_file, chunks, vectors, batch, bi,
                   upserts, query, top_k, matches, llm_call>>

\* line 87: chunk_text(text, chunk_size=CHUNK_SIZE, chunk_overlap=CHUNK_OVERLAP) is called
IngestChunk ==
    /\ op = "ingest" /\ pc = "chunk"
    /\ ctext' = text /\ csize' = cfg[1] /\ coverlap' = cfg[2]
    /\ ctokens' = <<>> /\ ci' = 0 /\ cchunks' = <<>> /\ cpc' = "start"
    /\ pc' = "chunking"
    /\ UNCHANGED <<procVars, genVars, thrVars>>
    /\ UNCHANGED <<op, fileId, pdf, text, local_file, chunks, vectors, batch, bi,
                   upserts, notes, exc, result, query, top_k, matches, llm_call>>

\* line 87: chunk_text returns
IngestChunked ==
    /\ op = "ingest" /\ pc = "chunking" /\ cpc = "done"
    /\ chunks' = cchunks
    /\ ctext' = <<>> /\ csize' = 0 /\ coverlap' = 0 /\ ctokens' = <<>>
    /\ ci' = 0 /\ cchunks' = <<>> /\ cpc' = "idle"
    /\ pc' = "get_embedder"
    /\ UNCHANGED <<procVars, genVars, thrVars>>
    /\ UNCHANGED <<op, fileId, pdf, text, local_file, vectors, batch, bi,
                   upserts, notes, exc, result, query, top_k, matches, llm_call>>

\* an Embedder instance, numbered in order of construction
Instance(n) == <<"Embedder", n>>

(***************************************************************************)
(* get_embedder() (lines 30-38), one statement per step.  The routes of    *)
(* app/main.py are plain functions, so the server runs every request in a  *)
(* worker thread of its pool and nothing keeps two threads from being      *)
(* inside get_embedder() together: there is no lock.                       *)
(***************************************************************************)
Threads == 1..NumThreads

\* the worker thread of the request that is followed through its handler
RequestThread == CHOOSE t \in Threads : \A u \in Threads : t <= u

\* a worker thread that serves some other request at the same time
OtherThreads == {CHOOSE t \in Threads : \A u \in Threads : t >= u} \ {RequestThread}

\* Embedder(EMBEDDING_MODEL) returns the instance or raises
LoadOutcomes == {"ok", "load_error"}

\* process_ingest line 90 or process_answer line 136 calls get_embedder()
EnterGetEmbedder(t) ==
    /\ tpc[t] = "idle"
    /\ tpc' = [tpc EXCEPT ![t] = "check"]
    /\ tgot' = [tgot EXCEPT ![t] = None]
    /\ UNCHANGED <<tnew, embedder, built>>

\* line 33: if _embedder is None
CheckEmbedder(t) ==
    /\ tpc[t] = "check"
    /\ tpc' = [tpc EXCEPT ![t] = IF embedder = None THEN "load" ELSE "return"]
    /\ UNCHANGED <<tnew, tgot, embedder, built>>

\* lines 34-36, right-hand side: Embedder(EMBEDDING_MODEL) loads the model;
\* when it raises nothing is constructed and the exception leaves get_embedder
LoadEmbedder(t, out) ==
    /\ tpc[t] = "load"
    /\ IF out = "ok"
       THEN /\ built' = built + 1
            /\ tnew' = [tnew EXCEPT ![t] = Instance(built + 1)]
            /\ tpc' = [tpc EXCEPT ![t] = "store"]
       ELSE /\ tpc' = [tpc EXCEPT ![t] = "idle"]
            /\ UNCHANGED <<tnew, built>>
    /\ UNCHANGED <<tgot, embedder>>

\* line 36: _embedder = <the new instance>
StoreEmbedder(t) ==
    /\ tpc[t] = "store"
    /\ embedder' = tnew[t]
    /\ tnew' = [tnew EXCEPT ![t] = None]
    /\ tpc' = [tpc EXCEPT ![t] = "return"]
    /\ UNCHANGED <<tgot, built>>

\* line 38: return _embedder
ReturnEmbedder(t) ==
    /\ tpc[t] = "return"
    /\ tgot' = [tgot EXCEPT ![t] = embedder]
    /\ tpc' = [tpc EXCEPT ![t] = "idle"]
    /\ UNCHANGED <<tnew, embedder, built>>

\* the next statement of get_embedder() in the thread of the request: the
\* handler goes on at nextpc with the instance returned, or to its except
\* clause when the model could not be loaded
GetEmbedderHere(nextpc) ==
    \/ EnterGetEmbedder(RequestThread) /\ UNCHANGED <<pc, exc>>
    \/ CheckEmbedder(RequestThread) /\ UNCHANGED <<pc, exc>>
    \/ \E out \in LoadOutcomes :
          /\ LoadEmbedder(RequestThread, out)
          /\ IF out = "ok" THEN UNCHANGED <<pc, exc>> ELSE Raise("model load failed")
    \/ StoreEmbedder(RequestThread) /\ UNCHANGED <<pc, exc>>
    \/ ReturnEmbedder(RequestThread) /\ pc' = nextpc /\ exc' = exc

\* line 90
IngestGetEmbedder ==
    /\ op = "ingest" /\ pc = "get_embedder"
    /\ GetEmbedderHere("embed")
    /\ UNCHANGED <<chunkVars, cfg, index, genVars>>
    /\ UNCHANGED <<op, fileId, pdf, text, local_file, chunks, vectors, batch, bi,
                   upserts, notes, result, query, top_k, matches, llm_call>>

\* line 91: embedder.embed_documents(chunks) raises or returns one vector per chunk
IngestEmbed ==
    /\ op = "ingest" /\ pc = "embed"
    /\ \E out \in {"ok", "encode_error", "encode_error_blank"} :
          IF out = "ok"
          THEN vectors' = embed_documents(chunks) /\ pc' = "build" /\ exc' = exc
          ELSE /\ vectors' = vectors
               /\ Raise(IF out = "encode_error" THEN "CUDA out of memory" ELSE "")
    /\ UNCHANGED <<chunkVars, procVars, genVars, thrVars>>
    /\ UNCHANGED <<op, fileId, pdf, text, local_file, chunks, batch, bi,
                   upserts, notes, result, query, top_k, matches, llm_call>>

\* lines 94-111: the records of the document, then i = 0 of the upload loop
IngestBuildBatch ==
    /\ op = "ingest" /\ pc = "build"
    /\ \E name \in OriginalNames : batch' = BuildBatch(fileId, name, vectors, chunks)
    /\ bi' = 0
    /\ pc' = "upsert"
    /\ UNCHANGED <<chunkVars, procVars, genVars, thrVars>>
    /\ UNCHANGED <<op, fileId, pdf, text, local_file, chunks, vectors,
                   upserts, notes, exc, result, query, top_k, matches, llm_call>>

\* lines 112-113: one pass of `for i in range(0, len(batch), batch_size)`;
\* index.upsert(vectors=batch[i:i + batch_size]) stores the batch or raises
IngestUpsert ==
    /\ op = "ingest" /\ pc = "upsert"
    /\ bi < Len(batch)
    /\ \E out \in {"ok", "error"} :
          IF out = "ok"
          THEN LET part == PySlice(batch, bi, bi + batch_size)
               IN /\ index' = Upsert(index, part)
                  /\ upserts' = Append(upserts, part)
                  /\ bi' = bi + batch_size
                  /\ UNCHANGED <<pc, exc>>
          ELSE Raise("Pinecone upsert failed") /\ UNCHANGED <<index, upserts, bi>>
    /\ UNCHANGED <<chunkVars, cfg, embedder, built, genVars, thrVars>>
    /\ UNCHANGED <<op, fileId, pdf, text, local_file, chunks, vectors, batch,
                   notes, result, query, top_k, matches, llm_call>>

\* line 116, after the last batch: notify_node_update(fileId, "indexed", pages=len(chunks))
IngestNotifyIndexed ==
    /\ op = "ingest" /\ pc = "upsert"
    /\ ~(bi < Len(batch))
    /\ \E post \in PostOutcomes :
          LET n == notify_node_update(fileId, "indexed", PyInt(Len(chunks)), None, post)
          IN /\ notes' = Append(notes, [payload |-> n.payload, ret |-> n.ret])
             /\ IF n.raised THEN Raise("notify failed")
                ELSE pc' = "cleanup" /\ exc' = exc
    /\ UNCHANGED <<chunkVars, procVars, genVars, thrVars>>
    /\ UNCHANGED <<op, fileId, pdf, text, local_file, chunks, vectors, batch, bi,
                   upserts, result, query, top_k, matches, llm_call>>

\* lines 119-121: os.remove(local_path) removes the file or raises OSError;
\* then the success payload is returned
IngestCleanup ==
    /\ op = "ingest" /\ pc = "cleanup"
    /\ \E out \in {"ok", "os_error"} :
          IF out = "ok"
          THEN /\ local_file' = "removed"
               /\ result' = [ok |-> TRUE, indexed_chunks |-> Len(chunks)]
               /\ pc' = "returned" /\ exc' = exc
          ELSE Raise("No such file or directory") /\ UNCHANGED <<local_file, result>>
    /\ UNCHANGED <<chunkVars, procVars, genVars, thrVars>>
    /\ UNCHANGED <<op, fileId, pdf, text, chunks, vectors, batch, bi,
                   upserts, notes, query, top_k, matches, llm_call>>

\* lines 123-125: the catch-all; str(e) is again passed in the place of `pages`
IngestExcept ==
    /\ op = "ingest" /\ pc = "except"
    /\ \E post \in PostOutcomes :
          LET n == notify_node_update(fileId, "failed", PyStr(ExcMsg(exc)), None, post)
          IN /\ notes' = Append(notes, [payload |-> n.payload, ret |-> n.ret])
             /\ IF n.raised
                THEN pc' = "escaped" /\ result' = result
                ELSE /\ result' = [ok |-> FALSE, reason |-> ExcMsg(exc)]
                     /\ pc' = "returned"
    /\ UNCHANGED <<chunkVars, procVars, genVars, thrVars>>
    /\ UNCHANGED <<op, fileId, pdf, text, local_file, chunks, vectors, batch, bi,
                   upserts, exc, query, top_k, matches, llm_call>>

IngestStep ==
    \/ IngestStart \/ IngestDownload \/ IngestExtract \/ IngestCheckEmpty
    \/ IngestChunk \/ IngestChunked \/ IngestGetEmbedder \/ IngestEmbed
    \/ IngestBuildBatch \/ IngestUpsert \/ IngestNotifyIndexed \/ IngestCleanup
    \/ IngestExcept

(***************************************************************************)
(* generate_llm_answer and format_fallback_answer (app/rag_engine.py).     *)
(* `llm` is what client.chat.completions.create does: it raises, returns   *)
(* no choice, or returns a message whose content is None or a text.        *)
(***************************************************************************)
FallbackLimit == 500
MinAnswerLen == 10

\* n characters that are not whitespace
Pattern(n) == [i \in 1..n |-> Letters[(i % Len(Letters)) + 1]]

LLMContents ==
    { None, <<>>, <<"\r", "\n">>,
      Pattern(2),
      Pattern(MinAnswerLen - 1),
      <<" ", "\f">> \o Pattern(MinAnswerLen - 1) \o <<"\r", "\n">>,
      Pattern(MinAnswerLen),
      <<" ">> \o Pattern(MinAnswerLen) \o <<"\n">> }

LLMOutcomes ==
    {[kind |-> "raise"], [kind |-> "no_choices"]}
        \cup {[kind |-> "ok", content |-> c] : c \in LLMContents}

NoInfoAnswer ==
    <<"I couldn't find any relevant information in the documents to answer your question.">>

\* the fallback that truncates from 500 characters on (>= in place of >)
format_fallback_answer_From500(context, q) ==
    LET summary == IF Len(context) >= FallbackLimit
                   THEN SubSeq(context, 1, FallbackLimit) \o <<".", ".", ".">>
                   ELSE context
    IN <<"**Answer to: ">> \o q
          \o <<"**\n\nBased on the retrieved documents:\n\n">> \o summary
          \o <<"\n\n*Note: This is a direct extract from your documents. For a more refined answer, please check the system logs.*">>

\* lines 266-276
format_fallback_answer(context, q) ==
    LET summary == IF Len(context) > FallbackLimit
                   THEN SubSeq(context, 1, FallbackLimit) \o <<".", ".", ".">>
                   ELSE context
    IN <<"**Answer to: ">> \o q
          \o <<"**\n\nBased on the retrieved documents:\n\n">> \o summary
          \o <<"\n\n*Note: This is a direct extract from your documents. For a more refined answer, please check the system logs.*">>

\* lines 208-263
generate_llm_answer(context, q, llm) ==
    IF context = None \/ context = <<>> \/ Strip(context) = <<>>
    THEN NoInfoAnswer
    ELSE IF llm.kind # "ok"
    THEN format_fallback_answer(context, q)
    ELSE IF llm.content = None \/ llm.content = <<>>
            \/ Len(Strip(llm.content)) < MinAnswerLen
    THEN format_fallback_answer(context, q)
    ELSE llm.content

(***************************************************************************)
(* process_answer (app/rag_engine.py).  Scores are in units of 0.00001.    *)
(***************************************************************************)
ScoreThreshold == 30000
ContextLimit == 3
DefaultTopK == 4

Queries == {<<"w", "h", "y", "?">>}
TopKs == {1, DefaultTopK}

ContextSeparator == <<"\n", "\n", "-", "-", "-", "\n", "\n">>

\* the metadata stored with chunk k - 1 of a document
MetaOf(k) == [fileId |-> PyStr("docA"), chunkId |-> PyInt(k - 1),
              text |-> <<Letters[k]>>, source |-> PyStr("a.pdf")]

\* what the index may return in place k of its answer: a match without a
\* score (places 1 and 3), with a score at the threshold (places 2, 3 and 4),
\* just above it (every place), or well above it and without metadata
\* (places 1, 2 and 4)
MatchesAt(k) ==
    LET meta == ("metadata" :> MetaOf(k))
        NoScore == IF k \in {1, 3} THEN {meta} ELSE {}
        AtThreshold == IF k \in {2, 3, 4} THEN {meta @@ ("score" :> ScoreThreshold)} ELSE {}
        NoMeta == IF k \in {1, 2, 4} THEN {("score" :> 90000)} ELSE {}
    IN NoScore \cup AtThreshold \cup NoMeta
          \cup {meta @@ ("score" :> ScoreThreshold + 4)}

MatchLists(n) ==
    UNION { {ms \in [1..len -> UNION {MatchesAt(k) : k \in 1..len}] :
                \A k \in 1..len : ms[k] \in MatchesAt(k)} : len \in 0..n }

\* round(score, 4) for a score that is not half way between two steps
Round4(score) == ((score + 5) \div 10) * 10

\* line 164 with a non-strict comparison
Relevant_AtThreshold(m) == Get(m, "score", 0) >= ScoreThreshold

\* lines 161, 164: score = m.get("score", 0); score > 0.3
Relevant(m) == Get(m, "score", 0) > ScoreThreshold

\* lines 156-171
ContextsOf(ms) ==
    LET kept == SelectSeq(ms, Relevant)
    IN [k \in 1..Len(kept) |-> Get(Get(kept[k], "metadata", <<>>), "text", <<>>)]

SourcesOf(ms) ==
    LET kept == SelectSeq(ms, Relevant)
    IN [k \in 1..Len(kept) |->
          LET meta == Get(kept[k], "metadata", <<>>)
          IN [fileId |-> Get(meta, "fileId", None),
              chunkId |-> Get(meta, "chunkId", None),
              score |-> Round4(Get(kept[k], "score", 0)),
              source |-> Get(meta, "source", PyStr("Unknown"))]]

\* line 180: "\n\n---\n\n".join(contexts[:3])
CombinedContext(contexts) == Join(PySlice(contexts, 0, ContextLimit), ContextSeparator)

NoMatchesAnswer ==
    <<"I couldn't find any relevant information in your documents to answer this question. Please make sure documents are uploaded and indexed.">>
NotRelevantAnswer ==
    <<"The retrieved documents don't seem relevant enough to answer your question confidently.">>

\* POST /answer reaches process_answer(query, top_k)
AnswerStart ==
    /\ pc = "idle"
    /\ FreshRequest("answer", "a_get_embedder")
    /\ \E q \in Queries, k \in TopKs : query' = q /\ top_k' = k
    /\ fileId' = "" /\ pdf' = <<>>
    /\ UNCHANGED <<chunkVars, procVars, genVars, thrVars>>

\* line 136
AnswerGetEmbedder ==
    /\ op = "answer" /\ pc = "a_get_embedder"
    /\ GetEmbedderHere("a_search")
    /\ UNCHANGED <<chunkVars, cfg, index, genVars>>
    /\ UNCHANGED <<op, fileId, pdf, text, local_file, chunks, vectors, batch, bi,
                   upserts, notes, result, query, top_k, matches, llm_call>>

\* lines 137-146: embed_query and index.query each raise or succeed; the
\* index answers with at most top_k matches
AnswerSearch ==
    /\ op = "answer" /\ pc = "a_search"
    /\ \E out \in {"ok", "encode_error", "query_error"} :
          IF out = "ok"
          THEN /\ \E ms \in MatchLists(top_k) : matches' = ms
               /\ pc' = "a_respond" /\ exc' = exc
          ELSE /\ matches' = matches
               /\ Raise(IF out = "encode_error" THEN "CUDA out of memory"
                        ELSE "Pinecone query failed")
    /\ UNCHANGED <<chunkVars, procVars, genVars, thrVars>>
    /\ UNCHANGED <<op, fileId, pdf, text, local_file, chunks, vectors, batch, bi,
                   upserts, notes, result, query, top_k, llm_call>>

\* lines 148-193: the two early exits, else the LLM answer over the context
AnswerRespond ==
    /\ op = "answer" /\ pc = "a_respond"
    /\ LET contexts == ContextsOf(matches)
           sources == SourcesOf(matches)
           combined_context == CombinedContext(contexts)
       IN IF matches = <<>>
          THEN /\ result' = [answer |-> NoMatchesAnswer, sources |-> <<>>]
               /\ llm_call' = llm_call
          ELSE IF contexts = <<>>
          THEN /\ result' = [answer |-> NotRelevantAnswer, sources |-> sources]
               /\ llm_call' = llm_call
          ELSE \E llm \in LLMOutcomes :
                 /\ llm_call' = combined_context
                 /\ result' = [answer |-> generate_llm_answer(combined_context, query, llm),
                               sources |-> sources,
                               chunks_used |-> Len(contexts)]
    /\ pc' = "returned"
    /\ UNCHANGED <<chunkVars, procVars, genVars, thrVars>>
    /\ UNCHANGED <<op, fileId, pdf, text, local_file, chunks, vectors, batch, bi,
                   upserts, notes, exc, query, top_k, matches>>

\* lines 195-203
AnswerExcept ==
    /\ op = "answer" /\ pc = "except"
    /\ result' = [answer |-> <<"An error occurred while processing your question: ",
                               ExcMsg(exc)>>,
                  error |-> ExcMsg(exc),
                  sources |-> <<>>]
    /\ pc' = "returned"
    /\ UNCHANGED <<chunkVars, procVars, genVars, thrVars>>
    /\ UNCHANGED <<op, fileId, pdf, text, local_file, chunks, vectors, batch, bi,
                   upserts, notes, exc, query, top_k, matches, llm_call>>

AnswerStep ==
    \/ AnswerStart \/ AnswerGetEmbedder \/ AnswerSearch \/ AnswerRespond
    \/ AnswerExcept

GenIdle == g_context = None /\ g_query = <<>> /\ g_llm = [kind |-> "none"] /\ g_answer = None
ThrIdle ==
    /\ tpc = [t \in Threads |-> "idle"]
    /\ tnew = [t \in Threads |-> None]
    /\ tgot = [t \in Threads |-> None]
ReqIdle ==
    /\ op = "none" /\ pc = "idle" /\ fileId = "" /\ pdf = <<>>
    /\ text = None /\ local_file = "none"
    /\ chunks = <<>> /\ vectors = <<>> /\ batch = <<>> /\ bi = 0
    /\ upserts = <<>> /\ notes = <<>> /\ exc = None /\ result = NoResult
    /\ query = <<>> /\ top_k = 0 /\ matches = <<>> /\ llm_call = None

\* app/main.py, the /ingest and /answer routes: the payload goes back to the
\* client and the request's locals are gone
Respond ==
    /\ pc = "returned"
    /\ op' = "none" /\ pc' = "idle" /\ fileId' = "" /\ pdf' = <<>>
    /\ text' = None /\ local_file' = "none"
    /\ chunks' = <<>> /\ vectors' = <<>> /\ batch' = <<>> /\ bi' = 0
    /\ upserts' = <<>> /\ notes' = <<>> /\ exc' = None /\ result' = NoResult
    /\ query' = <<>> /\ top_k' = 0 /\ matches' = <<>> /\ llm_call' = None
    /\ UNCHANGED <<chunkVars, procVars, genVars, thrVars>>

(***************************************************************************)
(* A thread of the pool inside get_embedder() on behalf of another request *)
(* (process_ingest line 90 or process_answer line 136).                    *)
(***************************************************************************)
\* process_ingest line 90 or process_answer line 136 calls get_embedder()
GetEmbedderCall(t) ==
    /\ EnterGetEmbedder(t)
    /\ UNCHANGED <<chunkVars, cfg, index, reqVars, genVars>>

\* line 33
GetEmbedderCheck(t) ==
    /\ CheckEmbedder(t)
    /\ UNCHANGED <<chunkVars, cfg, index, reqVars, genVars>>

\* lines 34-36, right-hand side
GetEmbedderLoad(t) ==
    /\ \E out \in LoadOutcomes : LoadEmbedder(t, out)
    /\ UNCHANGED <<chunkVars, cfg, index, reqVars, genVars>>

\* line 36, the assignment
GetEmbedderStore(t) ==
    /\ StoreEmbedder(t)
    /\ UNCHANGED <<chunkVars, cfg, index, reqVars, genVars>>

\* line 38
GetEmbedderReturn(t) ==
    /\ ReturnEmbedder(t)
    /\ UNCHANGED <<chunkVars, cfg, index, reqVars, genVars>>

\* a request served at the same time as the one followed, as far as it
\* touches the state the two share: its call of get_embedder()
OtherRequest ==
    \E t \in OtherThreads :
        \/ GetEmbedderCall(t)
        \/ GetEmbedderCheck(t)
        \/ GetEmbedderLoad(t)
        \/ GetEmbedderStore(t)
        \/ GetEmbedderReturn(t)

(***************************************************************************)
(* Spec: one process serving ingest and answer requests.  One request at a *)
(* time is followed through its handler, step by step; another request may *)
(* be inside get_embedder() at any moment.                                 *)
(***************************************************************************)
Init ==
    /\ cfg \in Configs
    /\ index = {} /\ embedder = None /\ built = 0
    /\ ReqIdle /\ ChunkIdle /\ GenIdle /\ ThrIdle

Next == IngestStep \/ ChunkStep \/ AnswerStep \/ Respond \/ OtherRequest

Spec == Init /\ [][Next]_vars

(***************************************************************************)
(* ChunkSpec: chunk_text called directly on every bounded input.           *)
(***************************************************************************)
ChunkInputs ==
    ((TextsUpTo(MaxLen) \cup {Words(n) : n \in 1..MaxWords})
        \X (1..MaxSize) \X (0..MaxSize))
    \cup {<<Words(ScenarioWords), DefaultChunkSize, DefaultChunkOverlap>>}

ChunkInit ==
    /\ \E in \in ChunkInputs :
          /\ ctext = in[1]
          /\ csize = in[2]
          /\ coverlap = in[3]
    /\ ctokens = <<>>
    /\ ci = 0
    /\ cchunks = <<>>
    /\ cpc = "start"
    /\ cfg = <<0, 0>> /\ index = {} /\ embedder = None /\ built = 0
    /\ ReqIdle /\ GenIdle /\ ThrIdle

ChunkNext == ChunkStep

ChunkSpec == ChunkInit /\ [][ChunkNext]_vars
(***************************************************************************)
(* LLMSpec: generate_llm_answer called directly on bounded inputs.         *)
(***************************************************************************)
GenContexts ==
    { None, <<>>, <<"\f", "\n">>, Pattern(1), <<" ">> \o Pattern(FallbackLimit) }
        \cup { Pattern(n) : n \in (FallbackLimit - 1)..(FallbackLimit + MaxPad) }

GenQueries == {<<"q">>, <<"w", "h", "y", "?">>}

\* a caller passes context and query; the LLM does one of the things it can do
GenerateAnswer ==
    /\ g_llm.kind = "none"
    /\ \E c \in GenContexts, q \in GenQueries, llm \in LLMOutcomes :
          /\ g_context' = c
          /\ g_query' = q
          /\ g_llm' = llm
          /\ g_answer' = generate_llm_answer(c, q, llm)
    /\ UNCHANGED <<chunkVars, procVars, reqVars, thrVars>>

\* the caller has the answer
GenerateDone ==
    /\ g_llm.kind # "none"
    /\ g_context' = None /\ g_query' = <<>> /\ g_llm' = [kind |-> "none"]
    /\ g_answer' = None
    /\ UNCHANGED <<chunkVars, procVars, reqVars, thrVars>>

LLMInit ==
    /\ GenIdle /\ ChunkIdle /\ ReqIdle /\ ThrIdle
    /\ cfg = <<0, 0>> /\ index = {} /\ embedder = None /\ built = 0

LLMNext == GenerateAnswer \/ GenerateDone

LLMSpec == LLMInit /\ [][LLMNext]_vars

(***************************************************************************)
(* ConcSpec: request threads of the server's pool inside get_embedder()    *)
(* (app/rag_engine.py lines 30-38), one statement per step.                *)
(***************************************************************************)
ConcInit ==
    /\ ThrIdle
    /\ cfg = <<0, 0>> /\ index = {} /\ embedder = None /\ built = 0
    /\ GenIdle /\ ChunkIdle /\ ReqIdle

ConcNext ==
    \E t \in Threads :
        \/ GetEmbedderCall(t)
        \/ GetEmbedderCheck(t)
        \/ GetEmbedderLoad(t)
        \/ GetEmbedderStore(t)
        \/ GetEmbedderReturn(t)

ConcSpec == ConcInit /\ [][ConcNext]_vars

(***************************************************************************)
(* Properties of chunk_text (checked under ChunkSpec).                     *)
(***************************************************************************)
\* tokens [a, b) of tok, joined by single spaces
TokensText(tok, a, b) == Join(SubSeq(tok, a + 1, b), <<" ">>)

\* the number of window starts 0, stride, 2*stride, ... that lie below n
StartsBelow(n, stride) == (n + stride - 1) \div stride

\* C5: for a text of N >= 1 tokens and size S > overlap O >= 0, chunk_text
\* returns exactly one window per start i*(S-O) below N, in order, and window
\* i holds the tokens [i*(S-O), min(i*(S-O)+S, N)); the 1200-word text with
\* S = 500, O = 50 gives the three windows [0:500], [450:950], [900:N].
C5_Windows ==
    LET tok == Split(ctext)
        N == Len(tok)
        stride == csize - coverlap
    IN (cpc = "done" /\ N >= 1 /\ csize > coverlap /\ coverlap >= 0) =>
          /\ Len(cchunks) = StartsBelow(N, stride)
          /\ \A i \in 0..(Len(cchunks) - 1) :
                cchunks[i + 1] = TokensText(tok, i * stride, Min(i * stride + csize, N))
          /\ (ctext = Words(ScenarioWords) /\ csize = 500 /\ coverlap = 50) =>
                cchunks = << TokensText(tok, 0, 500), TokensText(tok, 450, 950),
                             TokensText(tok, 900, N) >>

C5_Witness ==
    /\ cpc = "done"
    /\ ctext = Words(ScenarioWords) /\ csize = 500 /\ coverlap = 50
    /\ Len(cchunks) = 3
    /\ Len(Split(cchunks[3])) < csize

\* C6 as stated: when the text has at least one full window of tokens, every
\* chunk after the first starts with exactly O tokens that are the last O
\* tokens of the chunk before it, and has a token beyond them.
C6_ExactOverlap ==
    LET N == Len(Split(ctext))
    IN (cpc = "done" /\ csize > coverlap /\ coverlap >= 0 /\ N >= csize) =>
          \A k \in 2..Len(cchunks) :
             LET prev == Split(cchunks[k - 1])
                 cur == Split(cchunks[k])
             IN /\ Len(cur) > coverlap
                /\ Len(prev) >= coverlap
                /\ SubSeq(cur, 1, coverlap)
                      = SubSeq(prev, Len(prev) - coverlap + 1, Len(prev))

\* C6 amended: a chunk that starts at token s begins with the last
\* min(O, N - s) tokens of the chunk before it; it shares exactly O tokens and
\* goes beyond the previous chunk when s + O < N, and otherwise (the trailing
\* chunks) it is just the last N - s <= O tokens of the previous chunk.
C6_OverlapUpToEnd ==
    LET N == Len(Split(ctext))
        stride == csize - coverlap
    IN (cpc = "done" /\ csize > coverlap /\ coverlap >= 0 /\ N >= csize) =>
          \A k \in 2..Len(cchunks) :
             LET prev == Split(cchunks[k - 1])
                 cur == Split(cchunks[k])
                 s == (k - 1) * stride
                 m == Min(coverlap, N - s)
             IN /\ Len(cur) >= m
                /\ Len(prev) >= m
                /\ SubSeq(cur, 1, m) = SubSeq(prev, Len(prev) - m + 1, Len(prev))
                /\ (s + coverlap < N => Len(cur) > coverlap)
                /\ (s + coverlap >= N => Len(cur) = N - s)

C6_Witness ==
    LET N == Len(Split(ctext))
        stride == csize - coverlap
    IN /\ cpc = "done" /\ csize > coverlap /\ coverlap >= 1 /\ N >= csize
       /\ \E k \in 2..Len(cchunks) : (k - 1) * stride + coverlap < N
       /\ \E k \in 2..Len(cchunks) : (k - 1) * stride + coverlap >= N

\* C7: chunk_text terminates on every input: a text without tokens returns
\* the empty list at once, and every pass through the window loop moves the
\* window start forward (a call with overlap >= size, which cannot, fails
\* instead of iterating).
C7_Terminates ==
    [][ /\ (cpc = "start" /\ Split(ctext) = <<>>) => (cpc' = "done" /\ cchunks' = <<>>)
        /\ (cpc = "loop" /\ cpc' = "loop" /\ cchunks' # cchunks) => ci' > ci ]_vars
(***************************************************************************)
(* Properties of process_ingest and process_answer (checked under Spec).   *)
(***************************************************************************)
Statuses == {notes[k].payload.status : k \in 1..Len(notes)}

\* C1: a call of process_ingest attempts notify_node_update exactly once:
\* never twice while it runs, and exactly once by the time it has returned
\* (or let an exception out).
C1_NotifiedOnce ==
    op = "ingest" =>
        /\ Len(notes) <= 1
        /\ pc \in {"returned", "escaped"} => Len(notes) = 1

\* C2 as stated: no exception leaves process_ingest or process_answer, and
\* whenever an internal step failed -- a step raised, or the POST of the status
\* notification failed, or the LLM call failed so that the fallback answer was
\* built -- process_ingest returns ok = false with a reason and process_answer
\* returns an answer, an error and an empty sources list.
C2_EveryFailureReported ==
    LET PostFailed == \E k \in 1..Len(notes) : notes[k].ret[1] = FALSE
        LLMFailed == /\ llm_call # None /\ Strip(llm_call) # <<>>
                     /\ result.answer = format_fallback_answer(llm_call, query)
    IN /\ pc # "escaped"
       /\ (pc = "returned" /\ op = "ingest" /\ (exc # None \/ PostFailed)) =>
             /\ DOMAIN result = {"ok", "reason"}
             /\ result.ok = FALSE
       /\ (pc = "returned" /\ op = "answer" /\ (exc # None \/ LLMFailed)) =>
             /\ DOMAIN result = {"answer", "error", "sources"}
             /\ result.sources = <<>>

\* C2 amended: no exception leaves process_ingest or process_answer.  When a
\* step of process_ingest raised, the call returns {ok: false, reason: str(e)},
\* also when the POST of the failure notification fails; every payload of
\* process_ingest has ok, and a reason when ok is false.  When a step of
\* process_answer raised, the call returns an answer, the error, and no
\* sources.  A failure that is absorbed where it happens does not show in the
\* payload: when no step raised, process_ingest returns
\* {ok: true, indexed_chunks} (or {ok: false, reason: "Empty text"} for a
\* blank text) whether or not the POST of its notification succeeded, and
\* process_answer returns no error field, also when the LLM call failed and
\* the answer is the fallback.
C2_NoEscape ==
    /\ pc # "escaped"
    /\ (pc = "returned" /\ op = "ingest") =>
          /\ "ok" \in DOMAIN result
          /\ result.ok = FALSE => "reason" \in DOMAIN result
          /\ exc # None => result = [ok |-> FALSE, reason |-> ExcMsg(exc)]
          /\ exc = None =>
                /\ Len(notes) = 1
                /\ result = IF notes[1].payload.status = "indexed"
                            THEN [ok |-> TRUE, indexed_chunks |-> Len(chunks)]
                            ELSE [ok |-> FALSE, reason |-> "Empty text"]
    /\ (pc = "returned" /\ op = "answer") =>
          /\ "answer" \in DOMAIN result /\ "sources" \in DOMAIN result
          /\ exc # None =>
                /\ DOMAIN result = {"answer", "error", "sources"}
                /\ result.error = ExcMsg(exc)
                /\ result.sources = <<>>
          /\ exc = None => "error" \notin DOMAIN result

C2_Witness ==
    /\ pc = "returned" /\ op = "ingest" /\ exc # None
    /\ Len(notes) >= 1 /\ notes[Len(notes)].ret[1] = FALSE
    /\ result.ok = FALSE

\* C3: a "failed" notification carries the failure message (when there is
\* one) as errorMessage and has no pages; only an "indexed" notification has
\* pages, the number of chunks; empty extracted text returns
\* {ok: false, reason: "Empty text"}.
C3_FailedPayload ==
    op = "ingest" =>
        /\ \A k \in 1..Len(notes) :
              LET p == notes[k].payload
                  msg == IF exc = None THEN "Empty text extracted" ELSE ExcMsg(exc)
              IN /\ p.status = "failed" =>
                      /\ "pages" \notin DOMAIN p
                      /\ msg # "" => ("errorMessage" \in DOMAIN p
                                        /\ p.errorMessage = PyStr(msg))
                 /\ "pages" \in DOMAIN p =>
                      (p.status = "indexed" /\ p.pages = PyInt(Len(chunks)))
        /\ (pc = "returned" /\ exc = None /\ text # None /\ Strip(text) = <<>>) =>
              result = [ok |-> FALSE, reason |-> "Empty text"]

\* C4: the context handed to generate_llm_answer is the texts of the matches
\* whose score is strictly above 0.3 (a match without a score has none), the
\* first three of them at most, in search order, joined by the separator; a
\* request none of whose matches is above 0.3 hands no context to the LLM.
C4_RelevantContext ==
    LET Good(k) == "score" \in DOMAIN matches[k] /\ matches[k].score > 30000
        Rank(k) == Cardinality({j \in 1..k : Good(j)})
        picked == {k \in 1..Len(matches) : Good(k) /\ Rank(k) <= 3}
        TextOf(k) == IF "metadata" \in DOMAIN matches[k]
                        /\ "text" \in DOMAIN matches[k].metadata
                     THEN matches[k].metadata.text ELSE <<>>
        expected == [r \in 1..Cardinality(picked) |->
                        TextOf(CHOOSE k \in picked : Rank(k) = r)]
    IN (op = "answer" /\ pc = "returned" /\ exc = None) =>
          IF picked = {} THEN llm_call = None
          ELSE llm_call = Join(expected, ContextSeparator)

C4_Witness ==
    /\ op = "answer" /\ pc = "returned" /\ llm_call # None
    /\ Len(matches) = 4
    /\ "score" \notin DOMAIN matches[1]
    /\ "score" \in DOMAIN matches[2] /\ matches[2].score = 30000
    /\ \A k \in 3..4 : "score" \in DOMAIN matches[k] /\ matches[k].score > 30000
    /\ "metadata" \in DOMAIN matches[3] /\ "metadata" \in DOMAIN matches[4]
    /\ llm_call = Join(<<matches[3].metadata.text, matches[4].metadata.text>>,
                       ContextSeparator)

\* C10: the upsert calls of a request are the consecutive batches of its
\* records in chunk order, 100 records each but the last, record n with id
\* "{fileId}_{n}"; every record sent stays in the index; a request whose
\* upsert failed has sent only the batches before the failing one, has sent
\* no "indexed" notification and returns ok = false; a request returns
\* ok = true, with indexed_chunks the number of chunks, only with every
\* batch sent.
C10_Batches ==
    op = "ingest" =>
        /\ \A j \in 1..Len(upserts) :
              /\ Len(upserts[j]) = Min(100, Len(chunks) - (j - 1) * 100)
              /\ Len(upserts[j]) >= 1
              /\ \A k \in 1..Len(upserts[j]) :
                    LET n == (j - 1) * 100 + k - 1
                        r == upserts[j][k]
                    IN /\ r.id = fileId \o "_" \o ToString(n)
                       /\ r.metadata.chunkId = n
                       /\ r.metadata.text = chunks[n + 1]
                       /\ r.id \in index
        /\ exc = Exc("Pinecone upsert failed") =>
              /\ Len(upserts) * 100 < Len(chunks)
              /\ "indexed" \notin Statuses
              /\ pc = "returned" => result.ok = FALSE
        /\ (pc = "returned" /\ result.ok = TRUE) =>
              /\ result.indexed_chunks = Len(chunks)
              /\ Len(upserts) * 100 >= Len(chunks)
              /\ "indexed" \in Statuses
        /\ "indexed" \in Statuses => Len(upserts) * 100 >= Len(chunks)

C10_Witness ==
    /\ op = "ingest" /\ pc = "returned"
    /\ exc = Exc("Pinecone upsert failed")
    /\ Len(upserts) >= 2
    /\ result.ok = FALSE

(***************************************************************************)
(* Property of generate_llm_answer (checked under LLMSpec).                *)
(***************************************************************************)
\* C8: when the LLM is called (the context is not blank) and the call
\* raises, or returns no text, or a text shorter than 10 characters once
\* stripped, the answer is the fallback template over the query and the
\* context: the whole context up to 500 characters, else its first 500
\* characters and "...".
C8_Fallback ==
    LET called == g_llm.kind # "none" /\ g_context # None /\ Strip(g_context) # <<>>
        degenerate == \/ g_llm.kind # "ok"
                      \/ g_llm.content = None
                      \/ Len(Strip(g_llm.content)) < 10
        summary == IF Len(g_context) <= 500 THEN g_context
                   ELSE [i \in 1..503 |-> IF i <= 500 THEN g_context[i] ELSE "."]
    IN (called /\ degenerate) =>
          g_answer = <<"**Answer to: ">> \o g_query
                       \o <<"**\n\nBased on the retrieved documents:\n\n">> \o summary
                       \o <<"\n\n*Note: This is a direct extract from your documents. For a more refined answer, please check the system logs.*">>

C8_Witness ==
    /\ g_llm.kind = "raise"
    /\ g_context # None /\ Len(g_context) > 500
    /\ g_answer # None /\ Len(g_answer) = 1 + Len(g_query) + 1 + 503 + 1

(***************************************************************************)
(* Property of get_embedder (checked under ConcSpec).                      *)
(***************************************************************************)
\* C9: under every interleaving the Embedder is constructed at most once,
\* and all requests get the same instance.
C9_LoadedOnce ==
    /\ built <= 1
    /\ \A t, u \in Threads :
          (tgot[t] # None /\ tgot[u] # None) => tgot[t] = tgot[u]
====
